---- MODULE Spec2Model ----
(***************************************************************************)
(* Day classification of a location-history export.                        *)
(*   src/utils.py        calendar and distance helpers                     *)
(*   src/main.py         categorize_days          (coordinate mode)        *)
(*   src/main_simple.py  categorize_days_simple   (tag mode)               *)
(*                                                                         *)
(* Representation.                                                         *)
(*  - A timestamp string is a record: kind "empty" (the '' default of      *)
(*    segment.get), "bad" (datetime.fromisoformat raises) or "iso"; an     *)
(*    "iso" timestamp carries its own calendar date y-m-d, its own         *)
(*    wall-clock time of day tod (seconds after midnight) and its UTC      *)
(*    offset off (minutes, 0 for a 'Z' suffix).                            *)
(*  - A day key 'YYYY-MM-DD' is the number y*10000 + m*100 + d, whose      *)
(*    numeric order is the lexicographic order of the string.              *)
(*  - A latLng string is a record: kind "missing" (''), "bad" (parse_latlng*)
(*    fails) or "ok"; the places of the model lie on one meridian and x is *)
(*    the place's position along it in metres, so that the haversine       *)
(*    distance of two places is the absolute difference of their x.        *)
(*    Coordinates are finite numbers: float() also accepts 'nan' and 'inf',*)
(*    which no place of the model has.                                     *)
(*  - sorted(s) of a set of day keys is represented by the set s, and a    *)
(*    tier's list by the set of its members.                               *)
(*  - Python None is the number None (no year, no distance is negative).   *)
(***************************************************************************)
EXTENDS Integers, Sequences, FiniteSets, TLC

\* Longest segment list that is read.
MaxLen == 2

None == -1

CALENDAR_YEAR == 2025

RADIUS == 100

DAYS_OF_WEEK == {"Monday", "Tuesday", "Wednesday", "Thursday", "Friday"}

WORKING_HOURS == << <<9, 0>>, <<18, 0>> >>

WORK_TYPES == {"WORK", "INFERRED_WORK"}

HOME_TYPES == {"HOME", "INFERRED_HOME"}

----------------------------------------------------------------------------
(* datetime: the proleptic Gregorian calendar used by date and datetime.   *)

IsLeap(y) == (y % 4 = 0) /\ ((y % 100 # 0) \/ (y % 400 = 0))

DaysInMonth(y, m) ==
    IF m = 2 THEN (IF IsLeap(y) THEN 29 ELSE 28)
    ELSE IF m \in {4, 6, 9, 11} THEN 30 ELSE 31

DaysBeforeYear(y) == (y - 1) * 365 + ((y - 1) \div 4) - ((y - 1) \div 100) + ((y - 1) \div 400)

RECURSIVE DaysBeforeMonth(_, _)
DaysBeforeMonth(y, m) ==
    IF m = 1 THEN 0 ELSE DaysBeforeMonth(y, m - 1) + DaysInMonth(y, m - 1)

\* date.toordinal(): 0001-01-01 is day 1.
ToOrdinal(y, m, d) == DaysBeforeYear(y) + DaysBeforeMonth(y, m) + d

DayNames == <<"Monday", "Tuesday", "Wednesday", "Thursday", "Friday", "Saturday", "Sunday">>

\* strftime('%A')
DayName(y, m, d) == DayNames[((ToOrdinal(y, m, d) + 6) % 7) + 1]

\* strftime('%Y-%m-%d')
DateStr(y, m, d) == y * 10000 + m * 100 + d

\* current_date += timedelta(days=1)
NextDate(dt) ==
    IF dt.d < DaysInMonth(dt.y, dt.m) THEN [dt EXCEPT !.d = @ + 1]
    ELSE IF dt.m < 12 THEN [dt EXCEPT !.m = @ + 1, !.d = 1]
    ELSE [y |-> dt.y + 1, m |-> 1, d |-> 1]

\* date1 <= date2
DateLeq(a, b) == DateStr(a.y, a.m, a.d) <= DateStr(b.y, b.m, b.d)

\* datetime.fromisoformat(s.replace('Z', '+00:00')): the parsed value, or
\* ok = FALSE where it raises ValueError.
fromisoformat(s) ==
    IF s.kind = "iso"
    THEN [ok |-> TRUE, y |-> s.y, m |-> s.m, d |-> s.d, tod |-> s.tod, off |-> s.off]
    ELSE [ok |-> FALSE, y |-> 0, m |-> 0, d |-> 0, tod |-> 0, off |-> 0]

\* dt.time(): the wall-clock time of the timestamp itself, tzinfo dropped.
TimeOf(dt) == dt.tod

----------------------------------------------------------------------------
(* src/utils.py                                                            *)

Abs(n) == IF n < 0 THEN -n ELSE n

\* Both places on one meridian: a = sin^2(dphi/2), c = |dphi|, R*c = |x1-x2|.
haversine_distance(x1, x2) == Abs(x2 - x1)

parse_latlng(latlng_string) ==
    IF latlng_string.kind = "ok" THEN latlng_string.x ELSE None

\* "%H:%M" of f"{hour:02d}:{min:02d}": strptime raises outside 0..23, 0..59.
StrptimeOk(hm) == hm[1] \in 0..23 /\ hm[2] \in 0..59

\* A window string is the sequence of its '-'-separated parts, each the
\* sequence of its ':'-separated fields; a field is the number int() gives,
\* or None where int() raises.  The unpacking of either split raises unless
\* it yields exactly two items.
WindowOk(working_hours) ==
    /\ Len(working_hours) = 2
    /\ \A i \in 1..2 :
        /\ Len(working_hours[i]) = 2
        /\ \A j \in 1..2 : working_hours[i][j] # None
        /\ StrptimeOk(working_hours[i])

is_within_working_hours_utc(timestamp_str, working_hours) ==
    LET dt == fromisoformat(timestamp_str) IN
    IF ~dt.ok \/ ~WindowOk(working_hours) THEN FALSE
    ELSE LET time == (dt.tod - dt.off * 60) % 86400
             start_time == working_hours[1][1] * 3600 + working_hours[1][2] * 60
             end_time == working_hours[2][1] * 3600 + working_hours[2][2] * 60
         IN start_time <= time /\ time <= end_time

is_within_working_hours(timestamp_str, working_hours) ==
    LET dt == fromisoformat(timestamp_str) IN
    IF ~dt.ok \/ ~WindowOk(working_hours) THEN FALSE
    ELSE LET time == TimeOf(dt)
             start_time == working_hours[1][1] * 3600 + working_hours[1][2] * 60
             end_time == working_hours[2][1] * 3600 + working_hours[2][2] * 60
         IN start_time <= time /\ time <= end_time

is_working_day_always(timestamp_str, days_of_week) == TRUE

is_working_day(timestamp_str, days_of_week) ==
    LET dt == fromisoformat(timestamp_str) IN
    IF ~dt.ok THEN FALSE
    ELSE DayName(dt.y, dt.m, dt.d) \in days_of_week

get_year_from_timestamp(timestamp_str) ==
    LET dt == fromisoformat(timestamp_str) IN
    IF ~dt.ok THEN None ELSE dt.y

\* The dates the loop `while current_date <= end_date` adds while it stays
\* within the month of current_date.
WorkingDaysOfMonth(current_date, end_date, days_of_week) ==
    LET y == current_date.y
        m == current_date.m
        visited == {d \in current_date.d .. DaysInMonth(y, m) :
                        DateLeq([y |-> y, m |-> m, d |-> d], end_date)}
    IN {DateStr(y, m, d) : d \in {d \in visited : DayName(y, m, d) \in days_of_week}}

\* The loop `while current_date <= end_date`, a month of iterations at a time.
RECURSIVE WorkingDaysFrom(_, _, _, _)
WorkingDaysFrom(current_date, end_date, days_of_week, working_days) ==
    IF ~DateLeq(current_date, end_date) THEN working_days
    ELSE LET last == [current_date EXCEPT !.d = DaysInMonth(current_date.y, current_date.m)]
         IN WorkingDaysFrom(NextDate(last), end_date, days_of_week,
                working_days \cup WorkingDaysOfMonth(current_date, end_date, days_of_week))

get_all_working_days_in_year_short(year, days_of_week) ==
    WorkingDaysFrom([y |-> year, m |-> 1, d |-> 1], [y |-> year, m |-> 12, d |-> 30],
                    days_of_week, {})

get_all_working_days_in_year(year, days_of_week) ==
    WorkingDaysFrom([y |-> year, m |-> 1, d |-> 1], [y |-> year, m |-> 12, d |-> 31],
                    days_of_week, {})

----------------------------------------------------------------------------
(* src/main.py: categorize_days                                            *)

\* The locals of categorize_days before the loop.  raised records that an
\* exception left the function.
NoLocals ==
    [office_days |-> {}, home_days |-> {}, days_with_data |-> {},
     days_with_working_hour_visits |-> {}, day_min_distances |-> <<>>,
     segments_processed |-> 0, segments_skipped |-> 0, raised |-> FALSE]

\* try: dt = fromisoformat(...); date_str = dt.strftime(...) / except: continue
\* The outcome of the try statement: exc is "none", "caught" (the except
\* clause ran) or "raised" (the exception propagated).
date_str_unguarded(start_time) ==
    LET dt == fromisoformat(start_time) IN
    IF dt.ok THEN [exc |-> "none", date_str |-> DateStr(dt.y, dt.m, dt.d)]
    ELSE [exc |-> "raised", date_str |-> None]

date_str_of(start_time) ==
    LET dt == fromisoformat(start_time) IN
    IF dt.ok THEN [exc |-> "none", date_str |-> DateStr(dt.y, dt.m, dt.d)]
    ELSE [exc |-> "caught", date_str |-> None]

\* if date_str not in day_min_distances or min_distance < day_min_distances[date_str]
track_min_distance_last(day_min_distances, date_str, min_distance) ==
    [k \in (DOMAIN day_min_distances) \cup {date_str} |->
        IF k = date_str THEN min_distance ELSE day_min_distances[k]]

track_min_distance(day_min_distances, date_str, min_distance) ==
    IF date_str \notin DOMAIN day_min_distances \/ min_distance < day_min_distances[date_str]
    THEN [k \in (DOMAIN day_min_distances) \cup {date_str} |->
            IF k = date_str THEN min_distance ELSE day_min_distances[k]]
    ELSE day_min_distances

Min(a, b) == IF b < a THEN b ELSE a

\* The Categorize step of one located working-hour visit.
categorize_located_home_first(L, date_str, office_distance, home_distance, config) ==
    IF home_distance <= config.radius
    THEN [L EXCEPT !.home_days = @ \cup {date_str}]
    ELSE IF office_distance <= config.radius
    THEN [L EXCEPT !.office_days = @ \cup {date_str}]
    ELSE L

categorize_located(L, date_str, office_distance, home_distance, config) ==
    IF office_distance <= config.radius
    THEN [L EXCEPT !.office_days = @ \cup {date_str}]
    ELSE IF home_distance <= config.radius
    THEN [L EXCEPT !.home_days = @ \cup {date_str}]
    ELSE L

\* One iteration of the loop `for segment in segments` of categorize_days.
categorize_segment(L, segment, config) ==
    IF ~segment.visit THEN L
    ELSE LET start_time == segment.startTime IN
    IF start_time.kind = "empty" THEN L
    ELSE IF config.calendar_year # 0
            /\ get_year_from_timestamp(start_time) # config.calendar_year
    THEN [L EXCEPT !.segments_skipped = @ + 1]
    ELSE LET L1 == [L EXCEPT !.segments_processed = @ + 1]
             t == date_str_of(start_time)
             date_str == t.date_str
         IN
    IF t.exc = "raised" THEN [L1 EXCEPT !.raised = TRUE]
    ELSE IF t.exc = "caught" THEN L1
    ELSE IF ~is_working_day(start_time, config.days_of_week) THEN L1
    ELSE LET L2 == [L1 EXCEPT !.days_with_data = @ \cup {date_str}] IN
    IF ~is_within_working_hours(start_time, config.working_hours) THEN L2
    ELSE LET L3 == [L2 EXCEPT !.days_with_working_hour_visits = @ \cup {date_str}]
             latlng == segment.latLng
         IN
    IF latlng.kind = "missing" THEN L3
    ELSE LET lat == parse_latlng(latlng) IN
    IF lat = None THEN L3
    ELSE LET office_distance == haversine_distance(lat, config.office_lat)
             home_distance == haversine_distance(lat, config.home_lat)
             min_distance == Min(office_distance, home_distance)
             L4 == [L3 EXCEPT !.day_min_distances =
                        track_min_distance(@, date_str, min_distance)]
         IN categorize_located(L4, date_str, office_distance, home_distance, config)

home_only_days_all(L) == L.home_days

home_only_days(L) == L.home_days \ L.office_days

elsewhere_days_keep_home(L) == L.days_with_working_hour_visits \ L.office_days

elsewhere_days(L) ==
    (L.days_with_working_hour_visits \ L.office_days) \ home_only_days(L)

missing_days_data(L, config, all_possible_working_days) ==
    IF config.calendar_year # 0
    THEN all_possible_working_days \ L.days_with_data
    ELSE {}

missing_days(L, config, all_possible_working_days) ==
    IF config.calendar_year # 0
    THEN all_possible_working_days \ L.days_with_working_hour_visits
    ELSE {}

\* distance_km = day_min_distances[day] / 1000, compared with a bound in km.
KmBelow(distance, km) == distance < km * 1000

tier_of_inclusive(distance) ==
    IF distance <= 50 * 1000 THEN "local"
    ELSE IF distance <= 150 * 1000 THEN "regional"
    ELSE IF distance <= 500 * 1000 THEN "national"
    ELSE "international"

tier_of(distance) ==
    IF KmBelow(distance, 50) THEN "local"
    ELSE IF KmBelow(distance, 150) THEN "regional"
    ELSE IF KmBelow(distance, 500) THEN "national"
    ELSE "international"

Tiers == {"local", "regional", "national", "international"}

elsewhere_breakdown_no_international(L) ==
    [t \in Tiers |->
        {day \in elsewhere_days(L) :
            /\ day \in DOMAIN L.day_min_distances
            /\ tier_of(L.day_min_distances[day]) = t
            /\ t # "international"}]

elsewhere_breakdown(L) ==
    [t \in Tiers |->
        {day \in elsewhere_days(L) :
            /\ day \in DOMAIN L.day_min_distances
            /\ tier_of(L.day_min_distances[day]) = t}]

NoBreakdown == [t \in Tiers |-> {}]

\* The return value of categorize_days.
categorize_result(L, config, all_possible_working_days) ==
    [office |-> L.office_days,
     home |-> home_only_days(L),
     elsewhere |-> elsewhere_days(L),
     elsewhere_breakdown |-> elsewhere_breakdown(L),
     missing |-> missing_days(L, config, all_possible_working_days)]

----------------------------------------------------------------------------
(* src/main_simple.py: categorize_days_simple                              *)
(* Its locals are those of categorize_days without                         *)
(* days_with_working_hour_visits and day_min_distances, which stay empty.  *)

categorize_tagged(L, date_str, semantic_type, config) ==
    IF semantic_type \in config.work_types
    THEN [L EXCEPT !.office_days = @ \cup {date_str}]
    ELSE IF semantic_type \in config.home_types
    THEN [L EXCEPT !.home_days = @ \cup {date_str}]
    ELSE L

\* One iteration of the loop `for segment in segments` of categorize_days_simple.
categorize_segment_simple(L, segment, config) ==
    IF ~segment.visit THEN L
    ELSE LET start_time == segment.startTime IN
    IF start_time.kind = "empty" THEN L
    ELSE IF config.calendar_year # 0
            /\ get_year_from_timestamp(start_time) # config.calendar_year
    THEN [L EXCEPT !.segments_skipped = @ + 1]
    ELSE LET L1 == [L EXCEPT !.segments_processed = @ + 1]
             t == date_str_of(start_time)
             date_str == t.date_str
         IN
    IF t.exc = "raised" THEN [L1 EXCEPT !.raised = TRUE]
    ELSE IF t.exc = "caught" THEN L1
    ELSE IF ~is_working_day(start_time, config.days_of_week) THEN L1
    ELSE LET L2 == [L1 EXCEPT !.days_with_data = @ \cup {date_str}] IN
    IF ~is_within_working_hours(start_time, config.working_hours) THEN L2
    ELSE LET semantic_type == segment.semanticType IN
    IF semantic_type = "" THEN L2
    ELSE categorize_tagged(L2, date_str, semantic_type, config)

elsewhere_days_simple_hours(L) ==
    (L.days_with_working_hour_visits \ L.office_days) \ home_only_days(L)

elsewhere_days_simple(L) ==
    (L.days_with_data \ L.office_days) \ home_only_days(L)

missing_days_simple(L, config, all_possible_working_days) ==
    IF config.calendar_year # 0
    THEN all_possible_working_days \ L.days_with_data
    ELSE {}

\* The return value of categorize_days_simple; it has no elsewhere_breakdown,
\* which is shown here as four empty tiers.
categorize_result_simple(L, config, all_possible_working_days) ==
    [office |-> L.office_days,
     home |-> home_only_days(L),
     elsewhere |-> elsewhere_days_simple(L),
     elsewhere_breakdown |-> NoBreakdown,
     missing |-> missing_days_simple(L, config, all_possible_working_days)]

----------------------------------------------------------------------------
(* Inputs.                                                                 *)

Iso(y, m, d, tod, off) == [kind |-> "iso", y |-> y, m |-> m, d |-> d, tod |-> tod, off |-> off]

EmptyStr == [kind |-> "empty", y |-> 0, m |-> 0, d |-> 0, tod |-> 0, off |-> 0]

BadStr == [kind |-> "bad", y |-> 0, m |-> 0, d |-> 0, tod |-> 0, off |-> 0]

Hms(h, mi, sec) == h * 3600 + mi * 60 + sec

\* 2025-01-01 is a Wednesday, 2025-01-02 a Thursday, 2025-01-04 a Saturday,
\* 2024-12-31 a Tuesday of the year before.
\* Start times on a working day of 2025 within 9:00-18:00: the two bounds.
HourStartTimes ==
    { Iso(2025, 1, 1, Hms(9, 0, 0), 60),
      Iso(2025, 1, 2, Hms(18, 0, 0), 0) }

\* Start times that end the iteration before the location is read.
OtherStartTimes ==
    { EmptyStr, BadStr,
      Iso(2025, 1, 1, Hms(8, 59, 59), 0),
      Iso(2025, 1, 1, Hms(18, 0, 1), 0),
      Iso(2025, 1, 4, Hms(12, 0, 0), 0),
      Iso(2024, 12, 31, Hms(12, 0, 0), 0) }

Place(x) == [kind |-> "ok", x |-> x]

NoLatLng == [kind |-> "missing", x |-> 0]

BadLatLng == [kind |-> "bad", x |-> 0]

\* The office is at 0 and the home at 150, 150 m north of it: the place 0 is
\* within RADIUS of the office only, 100 of both, 250 of the home only; the
\* others are south of the office, which is then the nearer of the two.
LatLngs ==
    { NoLatLng, BadLatLng, Place(0), Place(100), Place(250),
      Place(-49999), Place(-50000), Place(-150000), Place(-500000) }

SemanticTypes == {"", "WORK", "INFERRED_WORK", "HOME", "INFERRED_HOME", "SEARCHED_ADDRESS"}

Segment(st, ll, ty) == [visit |-> TRUE, startTime |-> st, latLng |-> ll, semanticType |-> ty]

\* A segment without a visit payload (an activity or a timeline path).
NonVisit ==
    [visit |-> FALSE, startTime |-> Iso(2025, 1, 1, Hms(9, 0, 0), 60),
     latLng |-> NoLatLng, semanticType |-> ""]

\* Coordinate mode never reads semanticType and tag mode never reads latLng.
\* The visits outside the window, off the working days, out of the year or
\* without a usable start time are at the office, or tagged WORK or HOME.
CoordSegments ==
    {NonVisit}
    \cup {Segment(st, ll, "") : st \in HourStartTimes, ll \in LatLngs}
    \cup {Segment(st, Place(0), "") : st \in OtherStartTimes}

TagSegments ==
    {NonVisit}
    \cup {Segment(st, NoLatLng, ty) : st \in HourStartTimes, ty \in SemanticTypes}
    \cup {Segment(st, NoLatLng, ty) : st \in OtherStartTimes, ty \in {"WORK", "HOME"}}

SegmentsOf(m) == IF m = "coord" THEN CoordSegments ELSE TagSegments

\* The config dictionaries built by main() of either program; calendar_year
\* is 0 where config.get('calendar_year') is falsy.
Config(year, hours) ==
    [calendar_year |-> year, working_hours |-> hours, days_of_week |-> DAYS_OF_WEEK,
     office_lat |-> 0, home_lat |-> 150, radius |-> RADIUS,
     work_types |-> WORK_TYPES, home_types |-> HOME_TYPES]

----------------------------------------------------------------------------
(* The run of one program over one segment list.                           *)

VARIABLES mode, config, all_possible_working_days, segments, locals, pc, results,
          hours_timestamp, hours_within

vars == <<mode, config, all_possible_working_days, segments, locals, pc, results,
          hours_timestamp, hours_within>>

NoResults == [office |-> {}, home |-> {}, elsewhere |-> {},
              elsewhere_breakdown |-> NoBreakdown, missing |-> {}]

\* The state at the head of the loop: the configuration is read and the
\* expected working days are computed.
Init ==
    /\ mode \in {"coord", "tag"}
    /\ \E year \in {0, CALENDAR_YEAR} :
        /\ config = Config(year, WORKING_HOURS)
        /\ all_possible_working_days =
              IF year # 0 THEN get_all_working_days_in_year(year, DAYS_OF_WEEK) ELSE {}
    /\ segments = <<>>
    /\ locals = NoLocals
    /\ pc = "loop"
    /\ results = NoResults
    /\ hours_timestamp = EmptyStr
    /\ hours_within = FALSE

\* categorize_days reads the next segment of the list.
CategorizeSegment ==
    /\ mode = "coord" /\ pc = "loop" /\ Len(segments) < MaxLen
    /\ \E segment \in CoordSegments :
        LET L == categorize_segment(locals, segment, config) IN
        /\ segments' = Append(segments, segment)
        /\ locals' = L
        /\ pc' = IF L.raised THEN "raised" ELSE "loop"
    /\ UNCHANGED <<mode, config, all_possible_working_days, results,
                   hours_timestamp, hours_within>>

\* categorize_days has read the whole list: the set algebra and the return.
CategorizeReturn ==
    /\ mode = "coord" /\ pc = "loop"
    /\ results' = categorize_result(locals, config, all_possible_working_days)
    /\ pc' = "done"
    /\ UNCHANGED <<mode, config, all_possible_working_days, segments, locals,
                   hours_timestamp, hours_within>>

\* categorize_days_simple reads the next segment of the list.
SimpleSegment ==
    /\ mode = "tag" /\ pc = "loop" /\ Len(segments) < MaxLen
    /\ \E segment \in TagSegments :
        LET L == categorize_segment_simple(locals, segment, config) IN
        /\ segments' = Append(segments, segment)
        /\ locals' = L
        /\ pc' = IF L.raised THEN "raised" ELSE "loop"
    /\ UNCHANGED <<mode, config, all_possible_working_days, results,
                   hours_timestamp, hours_within>>

\* categorize_days_simple has read the whole list.
SimpleReturn ==
    /\ mode = "tag" /\ pc = "loop"
    /\ results' = categorize_result_simple(locals, config, all_possible_working_days)
    /\ pc' = "done"
    /\ UNCHANGED <<mode, config, all_possible_working_days, segments, locals,
                   hours_timestamp, hours_within>>

----------------------------------------------------------------------------
(* is_within_working_hours on its own, and in the loop of categorize_days. *)

\* Window strings: 9:00-18:00, 0:00-23:59, 9:00-9:00, 18:00-9:00, 8:30-17:45,
\* and the malformed '9:00', '9:00-18:00-19:00', '9-18:00', '9:00-18:00:00',
\* 'x:00-18:00', '9:00-24:00', '9:60-18:00'.
Windows ==
    { WORKING_HOURS,
      << <<0, 0>>, <<23, 59>> >>,
      << <<9, 0>>, <<9, 0>> >>,
      << <<18, 0>>, <<9, 0>> >>,
      << <<8, 30>>, <<17, 45>> >>,
      << <<9, 0>> >>,
      << <<9, 0>>, <<18, 0>>, <<19, 0>> >>,
      << <<9>>, <<18, 0>> >>,
      << <<9, 0>>, <<18, 0, 0>> >>,
      << <<None, 0>>, <<18, 0>> >>,
      << <<9, 0>>, <<24, 0>> >>,
      << <<9, 60>>, <<18, 0>> >> }

\* Start times on Wednesday 2025-01-01, written with a UTC offset of 0, +60
\* or -300 minutes, and the empty and the unparseable string.
HoursTimestamps ==
    {EmptyStr, BadStr} \cup
    {Iso(2025, 1, 1, tod, off) :
        tod \in {Hms(0, 0, 0), Hms(8, 59, 59), Hms(9, 0, 0), Hms(9, 0, 1), Hms(12, 0, 0),
                 Hms(17, 59, 59), Hms(18, 0, 0), Hms(18, 0, 1), Hms(23, 59, 59)},
        off \in {0, 60, -300}}

InitHours ==
    /\ mode = "coord"
    /\ \E hours \in Windows : config = Config(CALENDAR_YEAR, hours)
    /\ all_possible_working_days = get_all_working_days_in_year(CALENDAR_YEAR, DAYS_OF_WEEK)
    /\ segments = <<>>
    /\ locals = NoLocals
    /\ pc = "hours"
    /\ results = NoResults
    /\ hours_timestamp = EmptyStr
    /\ hours_within = FALSE

\* is_within_working_hours is applied to a start time, and categorize_days
\* reads a one-segment list: a visit at the office with that start time.
CheckHours ==
    /\ pc = "hours"
    /\ \E ts \in HoursTimestamps :
        /\ hours_timestamp' = ts
        /\ hours_within' = is_within_working_hours(ts, config.working_hours)
        /\ segments' = <<Segment(ts, Place(0), "")>>
        /\ locals' = categorize_segment(NoLocals, Segment(ts, Place(0), ""), config)
    /\ UNCHANGED <<mode, config, all_possible_working_days, pc, results>>

NextHours == CheckHours

SpecHours == InitHours /\ [][NextHours]_vars

Next == CategorizeSegment \/ CategorizeReturn \/ SimpleSegment \/ SimpleReturn

Spec == Init /\ [][Next]_vars

----------------------------------------------------------------------------
(* The two functions as a whole, on a complete segment list.               *)

RECURSIVE categorize_loop(_, _, _)
categorize_loop(L, segs, cfg) ==
    IF segs = <<>> \/ L.raised THEN L
    ELSE categorize_loop(categorize_segment(L, Head(segs), cfg), Tail(segs), cfg)

RECURSIVE categorize_loop_simple(_, _, _)
categorize_loop_simple(L, segs, cfg) ==
    IF segs = <<>> \/ L.raised THEN L
    ELSE categorize_loop_simple(categorize_segment_simple(L, Head(segs), cfg), Tail(segs), cfg)

categorize_days(segs, cfg, expected) ==
    LET L == categorize_loop(NoLocals, segs, cfg) IN
    [raised |-> L.raised,
     results |-> IF L.raised THEN NoResults ELSE categorize_result(L, cfg, expected)]

categorize_days_simple(segs, cfg, expected) ==
    LET L == categorize_loop_simple(NoLocals, segs, cfg) IN
    [raised |-> L.raised,
     results |-> IF L.raised THEN NoResults ELSE categorize_result_simple(L, cfg, expected)]

\* The program of the run, on another segment list.
Run(segs) ==
    IF mode = "coord" THEN categorize_days(segs, config, all_possible_working_days)
    ELSE categorize_days_simple(segs, config, all_possible_working_days)

----------------------------------------------------------------------------
(* Vocabulary of the properties, stated on the segment list itself.        *)

SegSet == {segments[i] : i \in 1..Len(segments)}

\* The segment is a visit whose start time is a date and a time.
Dated(s) == s.visit /\ s.startTime.kind = "iso"

DayOf(s) == s.startTime.y * 10000 + s.startTime.m * 100 + s.startTime.d

InYear(s) == config.calendar_year = 0 \/ s.startTime.y = config.calendar_year

OnWorkingDay(s) ==
    DayNames[((ToOrdinal(s.startTime.y, s.startTime.m, s.startTime.d) + 6) % 7) + 1]
        \in config.days_of_week

\* Within 9:00-18:00, the window of every run of Spec.
InHours(s) == 9 * 3600 <= s.startTime.tod /\ s.startTime.tod <= 18 * 3600

\* The visits that make their day a day with data.
Counted(s) == Dated(s) /\ InYear(s) /\ OnWorkingDay(s)

\* The visits that can mark their day: counted and within working hours.
Qualifying(s) == Counted(s) /\ InHours(s)

Located(s) == s.latLng.kind = "ok"

OfficeDistance(s) == Abs(s.latLng.x - config.office_lat)

HomeDistance(s) == Abs(s.latLng.x - config.home_lat)

MarksOffice(s) ==
    IF mode = "coord" THEN Located(s) /\ OfficeDistance(s) <= config.radius
    ELSE s.semanticType \in {"WORK", "INFERRED_WORK"}

MarksHome(s) ==
    IF mode = "coord" THEN Located(s) /\ HomeDistance(s) <= config.radius
    ELSE s.semanticType \in {"HOME", "INFERRED_HOME"}

Days == {DayOf(s) : s \in {t \in SegSet : Dated(t)}}

Done == pc = "done"

----------------------------------------------------------------------------
\* C1: in both modes the returned office, home and elsewhere day-key sets are
\* pairwise disjoint: no day key is in more than one of them.
C1_Disjoint ==
    Done =>
        /\ results.office \cap results.home = {}
        /\ results.office \cap results.elsewhere = {}
        /\ results.home \cap results.elsewhere = {}

\* A returned result of a day that one visit marked office and another home.
C1_Witness ==
    /\ Done
    /\ locals.office_days \cap locals.home_days # {}
    /\ results.office # {}

----------------------------------------------------------------------------
Injective(p) == \A i, j \in DOMAIN p : p[i] = p[j] => i = j

Orderings(n) == {p \in [1..n -> 1..n] : Injective(p)}

Permuted(segs, p) == [i \in 1..Len(segs) |-> segs[p[i]]]

----------------------------------------------------------------------------
\* C3: a day with a qualifying visit that marks it office is in office and not
\* in home, whatever other visits mark it home and in whatever order; a visit
\* within both thresholds marks its day office only (home is marked only by a
\* qualifying visit that fails the office test and passes the home test).
C3_OfficePriority ==
    Done =>
        /\ \A s \in SegSet :
            (Qualifying(s) /\ MarksOffice(s)) =>
                (DayOf(s) \in results.office /\ DayOf(s) \notin results.home)
        /\ \A day \in locals.home_days :
            \E s \in SegSet :
                /\ Qualifying(s) /\ DayOf(s) = day
                /\ MarksHome(s) /\ ~MarksOffice(s)
        /\ (Len(segments) = 1 /\ Qualifying(segments[1])
                /\ MarksOffice(segments[1]) /\ MarksHome(segments[1])) =>
             (locals.home_days = {} /\ results.office = {DayOf(segments[1])})

\* A day with a home-marking visit read before an office-marking one.
C3_Witness ==
    /\ Done
    /\ \E i, j \in 1..Len(segments) :
        /\ i < j
        /\ Qualifying(segments[i]) /\ Qualifying(segments[j])
        /\ DayOf(segments[i]) = DayOf(segments[j])
        /\ MarksHome(segments[i]) /\ ~MarksOffice(segments[i])
        /\ MarksOffice(segments[j])
        /\ DayOf(segments[i]) \in results.office

----------------------------------------------------------------------------
\* The dates of a year, as month and day of month.
DatesOfYear(y) == {md \in (1..12) \X (1..31) : md[2] <= DaysInMonth(y, md[1])}

\* The dates of the year of the runs whose weekday is a working day.
WorkingDatesOfYear ==
    {CALENDAR_YEAR * 10000 + md[1] * 100 + md[2] :
        md \in {x \in DatesOfYear(CALENDAR_YEAR) :
                  DayNames[((ToOrdinal(CALENDAR_YEAR, x[1], x[2]) + 6) % 7) + 1]
                      \in DAYS_OF_WEEK}}

\* C4: with a calendar year configured, every date of that year whose weekday
\* is a working day and of which the list has no visit segment is in missing
\* and in none of office, home, elsewhere (both modes).
C4_NoVisitIsMissing ==
    (Done /\ config.calendar_year # 0) =>
        /\ config.calendar_year = CALENDAR_YEAR
        /\ config.days_of_week = DAYS_OF_WEEK
        /\ \A day \in WorkingDatesOfYear :
            (\A s \in SegSet : Dated(s) => DayOf(s) # day)
               => (/\ day \in results.missing
                   /\ day \notin results.office \cup results.home \cup results.elsewhere)

\* A run with a year and a classified day, whose last working day of the
\* year, Wednesday 2025-12-31, has no visit.
C4_Witness ==
    /\ Done /\ config.calendar_year = 2025
    /\ results.office # {}
    /\ 20251231 \in results.missing
    /\ 20250104 \notin results.missing

----------------------------------------------------------------------------
SetMin(S) == CHOOSE x \in S : \A y \in S : x <= y

\* The distances of a day: of each located qualifying visit of the day, the
\* smaller of its distances to the office and to the home.
DayDistances(day) ==
    {IF OfficeDistance(s) <= HomeDistance(s) THEN OfficeDistance(s) ELSE HomeDistance(s) :
        s \in {t \in SegSet : Qualifying(t) /\ Located(t) /\ DayOf(t) = day}}

TierFor(metres) ==
    IF metres < 50000 THEN "local"
    ELSE IF metres < 150000 THEN "regional"
    ELSE IF metres < 500000 THEN "national"
    ELSE "international"

----------------------------------------------------------------------------
\* The window string is two ':'-pairs of an hour 0..23 and a minute 0..59.
WellFormedWindow(w) ==
    /\ Len(w) = 2
    /\ \A i \in 1..2 : Len(w[i]) = 2 /\ w[i][1] \in 0..23 /\ w[i][2] \in 0..59

\* C6: is_within_working_hours(timestamp, window) is true exactly when the
\* timestamp's own wall-clock time of day t has start <= t <= end, both bounds
\* included; a malformed timestamp or window gives false; and a visit is
\* marked as a working-hour visit of its day exactly when it is within.
C6_WithinWorkingHours ==
    (pc = "hours" /\ segments # <<>>) =>
        LET ts == hours_timestamp
            w == config.working_hours
        IN /\ hours_within <=>
                (/\ ts.kind = "iso"
                 /\ WellFormedWindow(w)
                 /\ w[1][1] * 3600 + w[1][2] * 60 <= ts.tod
                 /\ ts.tod <= w[2][1] * 3600 + w[2][2] * 60)
           /\ (ts.kind # "iso" \/ ~WellFormedWindow(w)) => ~hours_within
           /\ locals.days_with_working_hour_visits =
                 IF hours_within THEN {20250101} ELSE {}
           /\ ~locals.raised

\* A visit that starts exactly at the end of 9:00-18:00, by its own clock at
\* UTC+1, is within and marks its day.
C6_Witness ==
    /\ pc = "hours"
    /\ config.working_hours = << <<9, 0>>, <<18, 0>> >>
    /\ hours_timestamp = Iso(2025, 1, 1, Hms(18, 0, 0), 60)
    /\ hours_within
    /\ 20250101 \in locals.days_with_working_hour_visits

----------------------------------------------------------------------------
InsertAt(segs, k, s) ==
    [i \in 1..(Len(segs) + 1) |->
        IF i <= k THEN segs[i] ELSE IF i = k + 1 THEN s ELSE segs[i - 1]]

\* Visits whose non-empty start timestamp cannot be parsed.
CorruptVisits ==
    {Segment(BadStr, Place(0), "WORK"), Segment(BadStr, Place(250), "HOME"),
     Segment(BadStr, NoLatLng, "")}

Corrupt(s) == s.visit /\ s.startTime.kind = "bad"

\* C7: no run raises, and a visit with an unparseable start timestamp inserted
\* at any position of the list leaves the returned office, home, elsewhere,
\* missing and tiers as they are, in both modes, with and without a year.
C7_CorruptTimestampInert ==
    /\ pc # "raised" /\ ~locals.raised
    /\ Done =>
        \A k \in 0..Len(segments) : \A c \in CorruptVisits :
            LET r == Run(InsertAt(segments, k, c)) IN
            ~r.raised /\ r.results = results

\* A run without a year filter whose list has a corrupt visit before a visit
\* that marks a day office.
C7_Witness ==
    /\ Done /\ config.calendar_year = 0
    /\ Len(segments) = 2 /\ Corrupt(segments[1])
    /\ results.office # {}

----------------------------------------------------------------------------
HasDataDays == {DayOf(s) : s \in {t \in SegSet : Counted(t)}}

HourDays == {DayOf(s) : s \in {t \in SegSet : Qualifying(t)}}

----------------------------------------------------------------------------
\* C9 as stated: the day of a visit with a parseable start time that is not on
\* a working day is still added to the has-data day set.
C9_Original ==
    Done =>
        \A s \in SegSet :
            (Dated(s) /\ InYear(s) /\ ~OnWorkingDay(s)) =>
                DayOf(s) \in locals.days_with_data

\* C9 amended: a visit with a parseable start time that is not on a working
\* day is skipped before the has-data set is updated: its day is in neither
\* the has-data set nor office, home or elsewhere, and the has-data set holds
\* exactly the days of the visits of the year on working days (both modes).
C9_NonWorkingDaySkipped ==
    Done =>
        /\ \A s \in SegSet :
            (Dated(s) /\ ~OnWorkingDay(s)) =>
                /\ DayOf(s) \notin locals.days_with_data
                /\ DayOf(s) \notin locals.office_days \cup locals.home_days
                /\ DayOf(s) \notin results.office \cup results.home \cup results.elsewhere
        /\ locals.days_with_data = HasDataDays

\* A list with a visit on Saturday 2025-01-04 and a visit on a working day.
C9_Witness ==
    /\ Done
    /\ \E s \in SegSet : Dated(s) /\ InYear(s) /\ ~OnWorkingDay(s)
    /\ locals.days_with_data # {}

----------------------------------------------------------------------------
TierUnion == UNION {results.elsewhere_breakdown[t] : t \in Tiers}

\* C10 as stated: in coordinate mode the union of the four tiers is the
\* elsewhere set.
C10_Original ==
    (Done /\ mode = "coord") => TierUnion = results.elsewhere

\* C10 amended: in coordinate mode the union of the four tiers is the set of
\* the elsewhere days that have a located working-hour visit; these are the
\* elsewhere days with a recorded minimum distance, and an elsewhere day whose
\* working-hour visits all have a missing or unparseable location is in no tier.
C10_TiersCoverLocated ==
    (Done /\ mode = "coord") =>
        /\ TierUnion = {day \in results.elsewhere : DayDistances(day) # {}}
        /\ \A day \in results.elsewhere :
            day \in DOMAIN locals.day_min_distances <=> DayDistances(day) # {}
        /\ TierUnion \subseteq results.elsewhere

\* Two elsewhere days: one in the international tier, one whose only
\* working-hour visit has no usable location and which is in no tier.
C10_Witness ==
    /\ Done /\ mode = "coord"
    /\ results.elsewhere_breakdown["international"] # {}
    /\ \E day \in results.elsewhere : DayDistances(day) = {} /\ day \notin TierUnion

----------------------------------------------------------------------------
\* C11: with a calendar year configured, office, home, elsewhere and missing
\* partition the expected working days: every date of the configured year on
\* a working weekday is in exactly one of the four, and no other day key
\* (another year, a non-working weekday) is in any of them (both modes).
C11_Partition ==
    (Done /\ config.calendar_year # 0) =>
        LET parts == <<results.office, results.home, results.elsewhere, results.missing>> IN
        /\ config.calendar_year = CALENDAR_YEAR
        /\ config.days_of_week = DAYS_OF_WEEK
        /\ UNION {parts[i] : i \in 1..4} = WorkingDatesOfYear
        /\ \A i, j \in 1..4 : i < j => parts[i] \cap parts[j] = {}

\* A run with a year whose list has a visit of another year or of a
\* non-working weekday beside a visit that marks a day home, so that three of
\* the four sets hold a day or a visit is left out of all of them.
C11_Witness ==
    /\ Done /\ config.calendar_year = 2025
    /\ \E s \in SegSet : Dated(s) /\ (~InYear(s) \/ ~OnWorkingDay(s))
    /\ results.home # {}
    /\ results.missing # {}

====
